---------------------------- MODULE Spec2Model ----------------------------
(***************************************************************************)
(* Model of the incremental Markdown repair of gh-ask-docs                 *)
(* (src/askdocs/fixmarkdown.go) and of its version normalisation           *)
(* (NormalizeVersion).  A Go string is modelled as a sequence of           *)
(* one-character strings; every character used is ASCII, so byte indices   *)
(* and character indices coincide.  Indices named i, k, idx are 0-based as *)
(* in the Go code; TLA+ sequences are 1-based, hence the "+ 1" on access.  *)
(***************************************************************************)
EXTENDS Integers, Sequences, FiniteSets, TLC

VARIABLES
    raw,      \* the argument of the function that was called (the caller's buffer)
    content,  \* the local variable content of fixIncompleteMarkdown
    prev,     \* the argument s handed to the sub-repair that ran last
    pc,       \* the sub-repair that runs next, "done", or "panic"
    i,        \* fixEmphasis: scan index
    stack,    \* fixEmphasis: open-marker stack (bottom first)
    entry,    \* the function the caller called: fixIncompleteMarkdown
              \* (RenderFrame) or one sub-repair on its own (the package's tests)
    lines,        \* fixTables: the lines of the buffer
    tableI,       \* fixTables: loop index i
    inTable,      \* fixTables: inside a recognised table
    headerPipes,  \* fixTables: pipe count of the table's header
    version,       \* the argument v of NormalizeVersion
    versionsFile,  \* what LoadSupportedVersions finds on disk
    result,        \* the value NormalizeVersion returned
    rawMode,      \* main: the flag raw (--no-render)
    noStream,     \* main: the flag noStream (--no-stream)
    debug,        \* main: the flag debug (--debug)
    showSources,  \* main: the flag showSources (--sources)
    resp,         \* main: what the HTTP request came back with
    rdLine,       \* main: the line the last reader.ReadBytes returned
    rdErr,        \* main: the error the last reader.ReadBytes returned
    streaming,    \* main: the loop variable streaming
    buf,          \* main: the answer buffer (buf.String())
    prevLines,    \* main: visual lines of the frame on the terminal
    spinIdx,      \* main: index of the next spinner frame
    seen,         \* main: map from URL to the Source first seen with it
    order,        \* main: the URLs in order of first appearance
    stdout,       \* the writes made to standard output, in order
    stderr,       \* the writes made to standard error, in order
    exitCode,     \* the status the process ended with, -1 while it runs
    received      \* the reads made from the response body so far

verVars == <<version, versionsFile, result>>

mainVars ==
    <<rawMode, noStream, debug, showSources, resp, rdLine, rdErr, streaming, buf,
      prevLines, spinIdx, seen, order, stdout, stderr, exitCode, received>>

mdVars ==
    <<raw, content, prev, i, stack, lines, tableI, inTable, headerPipes>>

vars ==
    <<raw, content, prev, pc, i, stack, entry, lines, tableI, inTable, headerPipes,
      version, versionsFile, result,
      rawMode, noStream, debug, showSources, resp, rdLine, rdErr, streaming,
      buf, prevLines, spinIdx, seen, order, stdout, stderr, exitCode, received>>

----------------------------------------------------------------------------
(* Bounds of the explored inputs. *)

MaxLen == 4
MaxEmphLen == 5
MaxCodeLen == 6
MaxTableLen == 5
MaxTailLen == 3
MaxLines == 4

\* The backtick character (a TLA+ string cannot hold one)
BT == "backtick"

MixedChars == {BT, "[", "]", "(", ")", "!", "*", "_", "a", " "}
EmphChars == {"*", "_", "~", "a"}
CodeChars == {BT, "a", "\n"}
TableChars == {"|", "-", " ", "a", "\n"}

Strings(chars, n) == UNION {[1..k -> chars] : k \in 0..n}

\* A two-column header, its separator and the first pipe of a body row
TableHead == <<"|", "|", "\n", "|", "\n", "|">>

\* An image whose alt text is closed and whose URL has just been opened
ImageHead == <<"!", "[", "a", "]", "(">>

\* The buffer of the test case nested_image_syntax
NestedImage ==
    <<"T", "e", "x", "t", " ", "!", "[", "a", "l", "t", " ", "w", "i", "t", "h",
      " ", "[", "n", "e", "s", "t", "e", "d", "]", " ", "b", "r", "a", "c", "k",
      "e", "t", "s">>

\* Lines a table is made of: one-pipe and two-pipe separators, a two-pipe
\* header, a short row with a trailing space, a non-table line, an empty line
LineShapes ==
    {<<"|">>, <<"|", "-", "|">>, <<"|", "|", "a">>, <<"|", "a", " ">>, <<"a">>, <<>>}

\* the buffers of 1..n lines drawn from LineShapes
RECURSIVE LinesUpTo(_)
LinesUpTo(n) ==
    IF n <= 1 THEN LineShapes
    ELSE LET shorter == LinesUpTo(n - 1)
         IN  shorter \cup {b \o <<"\n">> \o l : b \in shorter, l \in LineShapes}

Inputs ==
    Strings(MixedChars, MaxLen) \cup Strings(EmphChars, MaxEmphLen)
        \cup Strings(CodeChars, MaxCodeLen) \cup Strings(TableChars, MaxTableLen)
        \cup {TableHead \o t : t \in Strings(MixedChars, MaxTailLen)}
        \cup {ImageHead \o t : t \in Strings(MixedChars, MaxTailLen)}
        \cup LinesUpTo(MaxLines)
        \cup {NestedImage}

----------------------------------------------------------------------------
(* The Go standard library functions the repairs use. *)

Min(S) == CHOOSE x \in S : \A y \in S : x <= y
Max(S) == CHOOSE x \in S : \A y \in S : x >= y

\* the positions (1-based) of character c in s
Positions(s, c) == {k \in 1..Len(s) : s[k] = c}

\* strings.HasPrefix(s[k:], sub)
HasPrefixAt(s, k, sub) ==
    /\ k + Len(sub) <= Len(s)
    /\ \A j \in 1..Len(sub) : s[k + j] = sub[j]

\* strings.Count(s, sub) for a non-empty sub: non-overlapping, left to right
RECURSIVE CountFrom(_, _, _)
CountFrom(s, sub, k) ==
    IF k + Len(sub) > Len(s) THEN 0
    ELSE IF HasPrefixAt(s, k, sub) THEN 1 + CountFrom(s, sub, k + Len(sub))
    ELSE CountFrom(s, sub, k + 1)

Count(s, sub) == CountFrom(s, sub, 0)

\* strings.LastIndex(s, sub): the last 0-based index of sub, or -1
LastIndex(s, sub) ==
    LET at == {k \in 0..Len(s) : HasPrefixAt(s, k, sub)}
    IN  IF at = {} THEN -1 ELSE Max(at)

\* strings.Contains(s, sub)
Contains(s, sub) == \E k \in 0..Len(s) : HasPrefixAt(s, k, sub)

\* strings.HasSuffix(s, sub)
HasSuffix(s, sub) == Len(s) >= Len(sub) /\ HasPrefixAt(s, Len(s) - Len(sub), sub)

\* unicode.IsSpace restricted to ASCII, as used by strings.TrimSpace
SpaceChars == {" ", "\t", "\n", "\r", "\f"}

\* strings.TrimSpace(s)
TrimSpace(s) ==
    LET keep == {k \in 1..Len(s) : s[k] \notin SpaceChars}
    IN  IF keep = {} THEN <<>> ELSE SubSeq(s, Min(keep), Max(keep))

\* strings.TrimRight(s, " ")
TrimRight(s) ==
    LET keep == {k \in 1..Len(s) : s[k] # " "}
    IN  IF keep = {} THEN <<>> ELSE SubSeq(s, 1, Max(keep))

\* strings.Repeat(sub, n)
RECURSIVE Repeat(_, _)
Repeat(sub, n) == IF n <= 0 THEN <<>> ELSE sub \o Repeat(sub, n - 1)

\* strings.Split(s, "\n")
RECURSIVE Split(_)
Split(s) ==
    LET nl == {k \in 1..Len(s) : s[k] = "\n"}
    IN  IF nl = {} THEN <<s>>
        ELSE <<SubSeq(s, 1, Min(nl) - 1)>> \o Split(SubSeq(s, Min(nl) + 1, Len(s)))

\* strings.Join(lines, "\n")
RECURSIVE Join(_)
Join(ls) ==
    IF Len(ls) = 0 THEN <<>>
    ELSE IF Len(ls) = 1 THEN ls[1]
    ELSE ls[1] \o <<"\n">> \o Join(Tail(ls))

----------------------------------------------------------------------------
(* The pre-compiled regexps (RE2: no flags, so $ is the end of the text    *)
(* and a negated class also matches a newline).                            *)

\* \[[^\]]*$
linkTextRe(s) ==
    \E k \in 1..Len(s) : s[k] = "[" /\ \A j \in (k + 1)..Len(s) : s[j] # "]"

\* Variant: the pattern is not anchored at the end of the text
linkURLRe_AnyOpen(s) ==
    \E k \in 1..(Len(s) - 1) : s[k] = "]" /\ s[k + 1] = "("

\* \]\([^)]*$
linkURLRe(s) ==
    \E k \in 1..(Len(s) - 1) :
        /\ s[k] = "]"
        /\ s[k + 1] = "("
        /\ \A j \in (k + 2)..Len(s) : s[j] # ")"

\* !\[[^\]]*$
imgAltTextRe(s) ==
    \E k \in 1..(Len(s) - 1) :
        /\ s[k] = "!"
        /\ s[k + 1] = "["
        /\ \A j \in (k + 2)..Len(s) : s[j] # "]"

\* Variant: the pattern of the link URL closer
imgURLRe_LikeLinks(s) ==
    \E k \in 1..(Len(s) - 1) :
        /\ s[k] = "]"
        /\ s[k + 1] = "("
        /\ \A j \in (k + 2)..Len(s) : s[j] # ")"

\* !\[[^\]]*\([^)]*$
imgURLRe(s) ==
    \E k \in 1..(Len(s) - 2) : \E m \in (k + 2)..Len(s) :
        /\ s[k] = "!"
        /\ s[k + 1] = "["
        /\ \A j \in (k + 2)..(m - 1) : s[j] # "]"
        /\ s[m] = "("
        /\ \A j \in (m + 1)..Len(s) : s[j] # ")"

\* ^\s*\|.*$   (applied to one line, which holds no newline)
tableLineRe(line) ==
    \E k \in 1..Len(line) :
        /\ line[k] = "|"
        /\ \A j \in 1..(k - 1) : line[j] \in SpaceChars

\* ^\s*\|[-:|\s]*$
tableSepRe(line) ==
    \E k \in 1..Len(line) :
        /\ line[k] = "|"
        /\ \A j \in 1..(k - 1) : line[j] \in SpaceChars
        /\ \A j \in (k + 1)..Len(line) : line[j] \in ({"-", ":", "|"} \cup SpaceChars)

----------------------------------------------------------------------------
(* The sub-repairs. *)

Fence == <<BT, BT, BT>>

\* Variant: overlapping occurrences are counted
fixCodeBlocks_Overlapping(s) ==
    IF Cardinality({k \in 0..Len(s) : HasPrefixAt(s, k, Fence)}) % 2 # 0
    THEN s \o <<"\n">> \o Fence ELSE s

fixCodeBlocks(s) ==
    IF Count(s, Fence) % 2 # 0 THEN s \o <<"\n">> \o Fence ELSE s

\* Variant: a buffer that ends with a backtick is taken as closed
fixInlineCode_SkipAfterBacktick(s) ==
    IF Count(s, <<BT>>) % 2 # 0 /\ ~HasSuffix(s, <<BT>>) THEN s \o <<BT>> ELSE s

\* Variant: the count is the fence closer's
fixInlineCode_CountsFences(s) ==
    IF Count(s, Fence) % 2 # 0 THEN s \o <<BT>> ELSE s

fixInlineCode(s) ==
    IF Count(s, <<BT>>) % 2 # 0 THEN s \o <<BT>> ELSE s

\* s[idx:] with the run-time bounds check: "panic" stands for the slice
\* bounds failure Go raises for a negative start
SliceFrom(s, idx) ==
    IF idx < 0 \/ idx > Len(s) THEN "panic" ELSE "ok"

\* Variant: the slice is taken before the regexp guard is looked at
unclosedText_SliceFirst(s, opens, open) ==
    IF SliceFrom(s, LastIndex(s, open)) = "panic" THEN "panic"
    ELSE IF ~opens THEN "no"
    ELSE IF Contains(SubSeq(s, LastIndex(s, open) + 1, Len(s)), <<"]">>) THEN "no"
    ELSE "yes"

\* The condition of the first if of fixLinks / fixImages, left operand of
\* && first: "yes", "no", or "panic" when evaluating it fails at run time.
unclosedText(s, opens, open) ==
    IF ~opens THEN "no"
    ELSE IF SliceFrom(s, LastIndex(s, open)) = "panic" THEN "panic"
    ELSE IF Contains(SubSeq(s, LastIndex(s, open) + 1, Len(s)), <<"]">>) THEN "no"
    ELSE "yes"

\* Variant: the slice starts at the first "[" (strings.Index)
linkTextCheck_FirstIndex(s) ==
    IF ~linkTextRe(s) THEN "no"
    ELSE IF Contains(SubSeq(s, Min(Positions(s, "[")), Len(s)), <<"]">>) THEN "no"
    ELSE "yes"

linkTextCheck(s) == unclosedText(s, linkTextRe(s), <<"[">>)

\* Variant: anchored on a bare "[" as the link closer is
imgAltTextCheck_BareBracket(s) ==
    IF ~linkTextRe(s) THEN "no"
    ELSE IF Contains(SubSeq(s, LastIndex(s, <<"[">>) + 1, Len(s)), <<"]">>) THEN "no"
    ELSE "yes"

imgAltTextCheck(s) == unclosedText(s, imgAltTextRe(s), <<"!", "[">>)

\* The second if of fixLinks / fixImages
closeURL(s, matches) ==
    IF matches /\ ~HasSuffix(TrimSpace(s), <<")">>) THEN s \o <<")">> ELSE s

\* Variant: the URL check is left out
fixLinks_TextOnly(s) == IF linkTextCheck(s) = "yes" THEN s \o <<"]">> ELSE s

\* Variant: the text check is left out
fixLinks_URLOnly(s) == closeURL(s, linkURLRe(s))

fixLinks(s) ==
    LET t == IF linkTextCheck(s) = "yes" THEN s \o <<"]">> ELSE s
    IN  closeURL(t, linkURLRe(t))

\* Variant: the alt text counts as open while "[" outnumber "]"
fixImages_CountsBrackets(s) ==
    LET t == IF Count(s, <<"[">>) > Count(s, <<"]">>) THEN s \o <<"]">> ELSE s
    IN  closeURL(t, imgURLRe(t))

fixImages(s) ==
    LET t == IF imgAltTextCheck(s) = "yes" THEN s \o <<"]">> ELSE s
    IN  closeURL(t, imgURLRe(t))

tokens ==
    << <<"*", "*", "*">>, <<"*", "*">>, <<"_", "_">>, <<"*">>, <<"_">>,
       <<"~", "~">>, <<"~">> >>

\* One iteration of the scan loop of fixEmphasis: the new (i, stack)
scanStep(s, k, st) ==
    LET hits == {t \in 1..Len(tokens) : HasPrefixAt(s, k, tokens[t])}
    IN  IF hits = {} THEN [i |-> k + 1, stack |-> st]
        ELSE LET tok == tokens[Min(hits)]
             IN  [i |-> k + Len(tok),
                  stack |-> IF Len(st) > 0 /\ st[Len(st)] = tok
                            THEN SubSeq(st, 1, Len(st) - 1)
                            ELSE Append(st, tok)]

\* Variant: the stack is emptied from its bottom
RECURSIVE closeStack_BottomFirst(_, _)
closeStack_BottomFirst(s, st) ==
    IF Len(st) = 0 THEN s
    ELSE closeStack_BottomFirst(s \o st[1], Tail(st))

\* Variant: the closers are put in front of the buffer
RECURSIVE closeStack_InFront(_, _)
closeStack_InFront(s, st) ==
    IF Len(st) = 0 THEN s
    ELSE closeStack_InFront(st[Len(st)] \o s, SubSeq(st, 1, Len(st) - 1))

\* The closing loop of fixEmphasis: pop each token and append it
RECURSIVE closeStack(_, _)
closeStack(s, st) ==
    IF Len(st) = 0 THEN s
    ELSE closeStack(s \o st[Len(st)], SubSeq(st, 1, Len(st) - 1))

\* The scan loop of fixEmphasis run to its end: the final stack
RECURSIVE scanFrom(_, _, _)
scanFrom(s, k, st) ==
    IF k >= Len(s) THEN st
    ELSE LET n == scanStep(s, k, st) IN scanFrom(s, n.i, n.stack)

fixEmphasis(s) == closeStack(s, scanFrom(s, 0, <<>>))

\* Variant: the padding is appended to the untrimmed line
tableStep_NoTrim(ls, k, inT, hp) ==
    LET line == ls[k + 1] IN
    IF tableLineRe(line)
    THEN IF ~inT
         THEN IF k + 1 < Len(ls) /\ tableSepRe(ls[k + 2])
              THEN [lines |-> ls, inTable |-> TRUE,
                    headerPipes |-> Count(line, <<"|">>)]
              ELSE [lines |-> ls, inTable |-> inT, headerPipes |-> hp]
         ELSE LET diff == hp - Count(line, <<"|">>) IN
              IF diff > 0
              THEN [lines |-> [ls EXCEPT ![k + 1] =
                                  line \o Repeat(<<" ", "|">>, diff)],
                    inTable |-> inT, headerPipes |-> hp]
              ELSE [lines |-> ls, inTable |-> inT, headerPipes |-> hp]
    ELSE [lines |-> ls, inTable |-> FALSE, headerPipes |-> 0]

\* Variant: a line that is not a table line leaves the scan state alone
tableStep_KeepsState(ls, k, inT, hp) ==
    LET line == ls[k + 1] IN
    IF tableLineRe(line)
    THEN IF ~inT
         THEN IF k + 1 < Len(ls) /\ tableSepRe(ls[k + 2])
              THEN [lines |-> ls, inTable |-> TRUE,
                    headerPipes |-> Count(line, <<"|">>)]
              ELSE [lines |-> ls, inTable |-> inT, headerPipes |-> hp]
         ELSE LET diff == hp - Count(line, <<"|">>) IN
              IF diff > 0
              THEN [lines |-> [ls EXCEPT ![k + 1] =
                                  TrimRight(line) \o Repeat(<<" ", "|">>, diff)],
                    inTable |-> inT, headerPipes |-> hp]
              ELSE [lines |-> ls, inTable |-> inT, headerPipes |-> hp]
    ELSE [lines |-> ls, inTable |-> inT, headerPipes |-> hp]

\* Variant: a short row gets one " |" whatever it lacks
tableStep_PadsOne(ls, k, inT, hp) ==
    LET line == ls[k + 1] IN
    IF tableLineRe(line)
    THEN IF ~inT
         THEN IF k + 1 < Len(ls) /\ tableSepRe(ls[k + 2])
              THEN [lines |-> ls, inTable |-> TRUE,
                    headerPipes |-> Count(line, <<"|">>)]
              ELSE [lines |-> ls, inTable |-> inT, headerPipes |-> hp]
         ELSE LET diff == hp - Count(line, <<"|">>) IN
              IF diff > 0
              THEN [lines |-> [ls EXCEPT ![k + 1] =
                                  TrimRight(line) \o <<" ", "|">>],
                    inTable |-> inT, headerPipes |-> hp]
              ELSE [lines |-> ls, inTable |-> inT, headerPipes |-> hp]
    ELSE [lines |-> ls, inTable |-> FALSE, headerPipes |-> 0]

\* One iteration of the loop of fixTables at index k: the new lines, inTable
\* and headerPipes (the index always moves on by one)
tableStep(ls, k, inT, hp) ==
    LET line == ls[k + 1] IN
    IF tableLineRe(line)
    THEN IF ~inT
         THEN IF k + 1 < Len(ls) /\ tableSepRe(ls[k + 2])
              THEN [lines |-> ls, inTable |-> TRUE,
                    headerPipes |-> Count(line, <<"|">>)]
              ELSE [lines |-> ls, inTable |-> inT, headerPipes |-> hp]
         ELSE LET diff == hp - Count(line, <<"|">>) IN
              IF diff > 0
              THEN [lines |-> [ls EXCEPT ![k + 1] =
                                  TrimRight(line) \o Repeat(<<" ", "|">>, diff)],
                    inTable |-> inT, headerPipes |-> hp]
              ELSE [lines |-> ls, inTable |-> inT, headerPipes |-> hp]
    ELSE [lines |-> ls, inTable |-> FALSE, headerPipes |-> 0]

\* The loop of fixTables from index k on: the final lines
RECURSIVE tableLoop(_, _, _, _)
tableLoop(ls, k, inT, hp) ==
    IF k >= Len(ls) THEN ls
    ELSE LET n == tableStep(ls, k, inT, hp)
         IN  tableLoop(n.lines, k + 1, n.inTable, n.headerPipes)

fixTables(s) == Join(tableLoop(Split(s), 0, FALSE, 0))

fixIncompleteMarkdown(s) ==
    fixTables(fixEmphasis(fixImages(fixLinks(fixInlineCode(fixCodeBlocks(s))))))

----------------------------------------------------------------------------
(* The repairs as a state machine: one step per call fixIncompleteMarkdown *)
(* makes, one step per iteration of the scan loop of fixEmphasis and of    *)
(* the loop of fixTables.  A sub-repair that was called on its own returns *)
(* to its caller; inside fixIncompleteMarkdown the next sub-repair runs.   *)

\* where control goes when a sub-repair returns
After(next) == IF entry = "fixIncompleteMarkdown" THEN next ELSE "done"

\* the version variables while NormalizeVersion is not running
VersionIdle ==
    /\ version = <<>>
    /\ versionsFile = [loaded |-> FALSE]
    /\ result = <<>>

\* the variables of main while main is not running
MainIdle ==
    /\ rawMode = FALSE
    /\ noStream = FALSE
    /\ debug = FALSE
    /\ showSources = FALSE
    /\ resp = "none"
    /\ rdLine = <<>>
    /\ rdErr = "nil"
    /\ streaming = FALSE
    /\ buf = <<>>
    /\ prevLines = 0
    /\ spinIdx = 0
    /\ seen = <<>>
    /\ order = <<>>
    /\ stdout = <<>>
    /\ stderr = <<>>
    /\ exitCode = -1
    /\ received = <<>>

\* the local variables of fixEmphasis and fixTables before either is entered
LocalsUnset ==
    /\ i = 0
    /\ stack = <<>>
    /\ lines = <<>>
    /\ tableI = 0
    /\ inTable = FALSE
    /\ headerPipes = 0

\* RenderFrame calls fixIncompleteMarkdown(raw)
Init ==
    /\ raw \in Inputs
    /\ content = raw
    /\ prev = raw
    /\ entry = "fixIncompleteMarkdown"
    /\ pc = "fixCodeBlocks"
    /\ LocalsUnset
    /\ VersionIdle
    /\ MainIdle

\* the sub-repairs the package's tests call on their own
DirectEntries == {"fixLinks", "fixImages", "fixTables"}

\* a test calls one sub-repair with the buffer raw
InitDirect ==
    /\ raw \in Inputs
    /\ content = raw
    /\ prev = raw
    /\ entry \in DirectEntries
    /\ pc = entry
    /\ LocalsUnset
    /\ VersionIdle
    /\ MainIdle

CallFixCodeBlocks ==
    /\ pc = "fixCodeBlocks"
    /\ prev' = content
    /\ content' = fixCodeBlocks(content)
    /\ pc' = After("fixInlineCode")
    /\ UNCHANGED <<raw, i, stack, entry, lines, tableI, inTable, headerPipes>>
    /\ UNCHANGED verVars
    /\ UNCHANGED mainVars

CallFixInlineCode ==
    /\ pc = "fixInlineCode"
    /\ prev' = content
    /\ content' = fixInlineCode(content)
    /\ pc' = After("fixLinks")
    /\ UNCHANGED <<raw, i, stack, entry, lines, tableI, inTable, headerPipes>>
    /\ UNCHANGED verVars
    /\ UNCHANGED mainVars

CallFixLinks ==
    /\ pc = "fixLinks"
    /\ prev' = content
    /\ IF linkTextCheck(content) = "panic"
       THEN pc' = "panic" /\ content' = content
       ELSE pc' = After("fixImages") /\ content' = fixLinks(content)
    /\ UNCHANGED <<raw, i, stack, entry, lines, tableI, inTable, headerPipes>>
    /\ UNCHANGED verVars
    /\ UNCHANGED mainVars

CallFixImages ==
    /\ pc = "fixImages"
    /\ prev' = content
    /\ IF imgAltTextCheck(content) = "panic"
       THEN pc' = "panic" /\ content' = content
       ELSE pc' = After("fixEmphasis") /\ content' = fixImages(content)
    /\ UNCHANGED <<raw, i, stack, entry, lines, tableI, inTable, headerPipes>>
    /\ UNCHANGED verVars
    /\ UNCHANGED mainVars

\* fixEmphasis is entered: i := 0, stack := []
EmphasisEnter ==
    /\ pc = "fixEmphasis"
    /\ prev' = content
    /\ i' = 0
    /\ stack' = <<>>
    /\ pc' = "scan"
    /\ UNCHANGED <<raw, content, entry, lines, tableI, inTable, headerPipes>>
    /\ UNCHANGED verVars
    /\ UNCHANGED mainVars

\* one iteration of: for i < len(s)
EmphasisScan ==
    /\ pc = "scan"
    /\ i < Len(content)
    /\ i' = scanStep(content, i, stack).i
    /\ stack' = scanStep(content, i, stack).stack
    /\ UNCHANGED <<raw, content, prev, pc, entry, lines, tableI, inTable, headerPipes>>
    /\ UNCHANGED verVars
    /\ UNCHANGED mainVars

\* the scan loop has ended: the closing loop runs and fixEmphasis returns
EmphasisClose ==
    /\ pc = "scan"
    /\ ~(i < Len(content))
    /\ content' = closeStack(content, stack)
    /\ pc' = After("fixTables")
    /\ UNCHANGED <<raw, prev, i, stack, entry, lines, tableI, inTable, headerPipes>>
    /\ UNCHANGED verVars
    /\ UNCHANGED mainVars

\* fixTables is entered: the buffer is split, inTable := false, headerPipes := 0
TableEnter ==
    /\ pc = "fixTables"
    /\ prev' = content
    /\ lines' = Split(content)
    /\ tableI' = 0
    /\ inTable' = FALSE
    /\ headerPipes' = 0
    /\ pc' = "tableLoop"
    /\ UNCHANGED <<raw, content, i, stack, entry>>
    /\ UNCHANGED verVars
    /\ UNCHANGED mainVars

\* one iteration of: for i := 0; i < len(lines); i++
TableIter ==
    /\ pc = "tableLoop"
    /\ tableI < Len(lines)
    /\ LET n == tableStep(lines, tableI, inTable, headerPipes) IN
       /\ lines' = n.lines
       /\ inTable' = n.inTable
       /\ headerPipes' = n.headerPipes
    /\ tableI' = tableI + 1
    /\ UNCHANGED <<raw, content, prev, pc, i, stack, entry>>
    /\ UNCHANGED verVars
    /\ UNCHANGED mainVars

\* the loop has ended: the lines are joined and fixTables returns
TableReturn ==
    /\ pc = "tableLoop"
    /\ ~(tableI < Len(lines))
    /\ content' = Join(lines)
    /\ pc' = "done"
    /\ UNCHANGED <<raw, prev, i, stack, entry, lines, tableI, inTable, headerPipes>>
    /\ UNCHANGED verVars
    /\ UNCHANGED mainVars

Next ==
    \/ CallFixCodeBlocks
    \/ CallFixInlineCode
    \/ CallFixLinks
    \/ CallFixImages
    \/ EmphasisEnter
    \/ EmphasisScan
    \/ EmphasisClose
    \/ TableEnter
    \/ TableIter
    \/ TableReturn

Spec == Init /\ [][Next]_vars

\* the steps a sub-repair called on its own can take
NextDirect ==
    \/ CallFixLinks
    \/ CallFixImages
    \/ TableEnter
    \/ TableIter
    \/ TableReturn

SpecDirect == InitDirect /\ [][NextDirect]_vars

\* the five appending sub-repairs, each of which can be called on its own,
\* and fixIncompleteMarkdown
EachEntries ==
    {"fixCodeBlocks", "fixInlineCode", "fixLinks", "fixImages", "fixEmphasis",
     "fixIncompleteMarkdown"}

\* one of them is called with the buffer raw
InitEach ==
    /\ raw \in Inputs
    /\ content = raw
    /\ prev = raw
    /\ entry \in EachEntries
    /\ pc = IF entry = "fixIncompleteMarkdown" THEN "fixCodeBlocks" ELSE entry
    /\ LocalsUnset
    /\ VersionIdle
    /\ MainIdle

SpecEach == InitEach /\ [][Next]_vars

----------------------------------------------------------------------------
(* NormalizeVersion (utils.go).  The versions file is what                 *)
(* LoadSupportedVersions finds when it is called: loaded is FALSE when the *)
(* executable path, the read or the JSON parse fails; a loaded file holds  *)
(* the list supportedVersions and the string latestVersion, either of      *)
(* which is empty when the JSON leaves it out.                             *)

FreeProTeam ==
    <<"f", "r", "e", "e", "-", "p", "r", "o", "-", "t", "e", "a", "m">>
EnterpriseCloud ==
    <<"e", "n", "t", "e", "r", "p", "r", "i", "s", "e", "-", "c", "l", "o",
      "u", "d">>
EnterpriseServerAt ==
    <<"e", "n", "t", "e", "r", "p", "r", "i", "s", "e", "-", "s", "e", "r",
      "v", "e", "r", "@">>
Latest == <<"l", "a", "t", "e", "s", "t">>
AtLatest == <<"@", "l", "a", "t", "e", "s", "t">>

\* the version number 3.m
V3(m) == <<"3", ".">> \o m

\* the list IsVersionSupported falls back to
hardcodedVersions ==
    <<V3(<<"1", "1">>), V3(<<"1", "2">>), V3(<<"1", "3">>), V3(<<"1", "4">>),
      V3(<<"1", "5">>), V3(<<"1", "6">>), V3(<<"1", "7">>)>>

\* the version NormalizeVersion falls back to
UltimateFallback == EnterpriseServerAt \o V3(<<"1", "5">>)

\* version numbers a versions file may name: one that is in the hardcoded
\* list, one below it and one above it
FileVersions == {V3(<<"1", "0">>), V3(<<"1", "5">>), V3(<<"1", "8">>)}

\* the lists supportedVersions of a versions file
SupportedLists ==
    {<<>>} \cup {<<a>> : a \in FileVersions}
        \cup {l \in FileVersions \X FileVersions : l[1] # l[2]}

\* what LoadSupportedVersions can find
VersionsFiles ==
    {[loaded |-> FALSE]}
        \cup {[loaded |-> TRUE, supportedVersions |-> l, latestVersion |-> v] :
                 l \in SupportedLists, v \in {<<>>} \cup FileVersions}

\* what can follow "enterprise-server@" in the argument
VersionParts ==
    {<<>>, Latest, Latest \o <<" ">>, V3(<<"1">>), V3(<<"1", "1">>),
     V3(<<"1", "5", "0">>)} \cup FileVersions

\* the arguments of NormalizeVersion
VersionInputs ==
    {<<>>, FreeProTeam, EnterpriseCloud, FreeProTeam \o AtLatest,
     EnterpriseCloud \o AtLatest, <<"F">> \o Tail(FreeProTeam),
     SubSeq(EnterpriseServerAt, 1, Len(EnterpriseServerAt) - 1),
     <<" ">> \o EnterpriseServerAt \o Latest, <<"a">>}
        \cup {EnterpriseServerAt \o part : part \in VersionParts}

\* strings.HasPrefix(s, prefix)
HasPrefix(s, prefix) == HasPrefixAt(s, 0, prefix)

\* strings.TrimPrefix(s, prefix)
TrimPrefix(s, prefix) ==
    IF HasPrefix(s, prefix) THEN SubSeq(s, Len(prefix) + 1, Len(s)) ELSE s

\* for _, v := range list { if v == ver { return true } }; return false
InList(list, ver) == \E k \in 1..Len(list) : list[k] = ver

\* Variant: the hardcoded list counts also when the file has loaded
IsVersionSupported_AlsoHardcoded(ver, file) ==
    \/ InList(hardcodedVersions, ver)
    \/ file.loaded /\ InList(file.supportedVersions, ver)

IsVersionSupported(ver, file) ==
    IF ~file.loaded
    THEN InList(hardcodedVersions, ver)
    ELSE InList(file.supportedVersions, ver)

NormalizeVersion(v, file) ==
    IF v \in {FreeProTeam, EnterpriseCloud} THEN v \o AtLatest
    ELSE IF HasPrefix(v, EnterpriseServerAt)
    THEN LET versionPart == TrimPrefix(v, EnterpriseServerAt) IN
         IF versionPart = Latest THEN v
         ELSE IF IsVersionSupported(versionPart, file) THEN v
         ELSE IF file.loaded /\ file.latestVersion # <<>>
         THEN EnterpriseServerAt \o file.latestVersion
         ELSE UltimateFallback
    ELSE FreeProTeam \o AtLatest

\* main calls NormalizeVersion(version)
InitVersion ==
    /\ version \in VersionInputs
    /\ versionsFile \in VersionsFiles
    /\ result = <<>>
    /\ entry = "NormalizeVersion"
    /\ pc = "NormalizeVersion"
    /\ raw = <<>>
    /\ content = <<>>
    /\ prev = <<>>
    /\ LocalsUnset
    /\ MainIdle

CallNormalizeVersion ==
    /\ pc = "NormalizeVersion"
    /\ result' = NormalizeVersion(version, versionsFile)
    /\ pc' = "done"
    /\ UNCHANGED <<version, versionsFile, entry>>
    /\ UNCHANGED mdVars
    /\ UNCHANGED mainVars

NextVersion == CallNormalizeVersion

SpecVersion == InitVersion /\ [][NextVersion]_vars

----------------------------------------------------------------------------
(* main (main.go) from the HTTP request on, with RenderFrame,              *)
(* RenderSpinner, clearLines and countVisualLines (render.go).  A write is *)
(* a record: by names the statement that made it, s is the text.  A line   *)
(* of the response is given by what bytes.TrimSpace and json.Unmarshal     *)
(* make of it.  Terminal control sequences are single atoms.               *)

MaxReads == 2

DefaultWidth == 80

\* ESC[2K, ESC[1A and a colour sequence of the renderer
ClearLineSeq == "ESC[2K"
CursorUpSeq == "ESC[1A"
ColourSeq == "ESC[0m"

SpinnerFrames == <<"|", "/", "-", "\\">>

ChunkMessage == "MESSAGE_CHUNK"
ChunkSources == "SOURCES"
ChunkNoContent == "NO_CONTENT_SIGNAL"
ChunkInputFilter == "INPUT_CONTENT_FILTER"

\* the text ExitCouldNotAnswer prints
CouldNotAnswer == <<"The AI could not answer your question.", "\n">>

\* Sources of the response: two with the same URL, one without a title
SourceA == [Title |-> <<"t">>, URL |-> <<"u">>]
SourceB == [Title |-> <<"]">>, URL |-> <<"u">>]
SourceC == [Title |-> <<>>, URL |-> <<"v">>]

\* the values of the field sources: not a JSON list of sources, or a list
SourcesFields ==
    {[valid |-> FALSE, list |-> <<>>]}
        \cup {[valid |-> TRUE, list |-> l] :
                 l \in {<<SourceA>>, <<SourceB, SourceC>>,
                        <<SourceC, SourceA, SourceB>>}}

NoSources == [valid |-> FALSE, list |-> <<>>]

\* the texts of message chunks
MessageTexts == {<<"a">>, <<"*", "b", "\n">>}

\* the lines a read can return: blank, not JSON, a message chunk, a sources
\* chunk, the two refusal chunks, a chunk of another type
ResponseLines ==
    {[blank |-> TRUE, json |-> FALSE, chunkType |-> "", text |-> <<>>,
      sources |-> NoSources],
     [blank |-> FALSE, json |-> FALSE, chunkType |-> "", text |-> <<>>,
      sources |-> NoSources]}
        \cup {[blank |-> FALSE, json |-> TRUE, chunkType |-> ChunkMessage,
               text |-> m, sources |-> NoSources] : m \in MessageTexts}
        \cup {[blank |-> FALSE, json |-> TRUE, chunkType |-> ChunkSources,
               text |-> <<>>, sources |-> f] : f \in SourcesFields}
        \cup {[blank |-> FALSE, json |-> TRUE, chunkType |-> c, text |-> <<>>,
               sources |-> NoSources] :
                 c \in {ChunkNoContent, ChunkInputFilter, "CONVERSATION_ID"}}

\* what Do(req) comes back with: an error, or a response with a status
Responses == {"error", "500", "200"}

\* the errors of reader.ReadBytes: none, io.EOF, any other
ReadErrors == {"nil", "EOF", "other"}

\* what term.GetSize reports: 0 stands for an error or a width <= 0
TerminalWidths == {0, 2}

\* the themes of --theme
Themes == {"auto", "light", "dark", "neon"}

\* r.Render(md): the renderer of the glamour library, which is not part of
\* the repository; it stands here as the text between colour sequences and
\* line breaks
Render(md) == <<ColourSeq, "\n">> \o md \o <<ColourSeq, "\n">>

\* StripANSI(s)
StripANSI(s) ==
    SelectSeq(s, LAMBDA c : c \notin {ClearLineSeq, CursorUpSeq, ColourSeq})

\* the loop of countVisualLines over the lines ls from index k on
RECURSIVE countLines(_, _, _)
countLines(ls, k, width) ==
    IF k > Len(ls) THEN 0
    ELSE (IF ls[k] = <<>> THEN 1 ELSE (Len(ls[k]) + width - 1) \div width)
             + countLines(ls, k + 1, width)

\* countVisualLines(s) on a terminal that reports the width w
countVisualLines(s, w) ==
    countLines(Split(StripANSI(s)), 1, IF w <= 0 THEN DefaultWidth ELSE w)

\* the loop of clearLines(n) from index k on, and the final carriage return
RECURSIVE clearFrom(_, _)
clearFrom(k, n) ==
    IF k < n
    THEN <<ClearLineSeq>> \o (IF k < n - 1 THEN <<CursorUpSeq>> ELSE <<>>)
             \o clearFrom(k + 1, n)
    ELSE <<"\r">>

\* Variant: the cursor moves up after every cleared line
RECURSIVE clearLines_UpEach(_)
clearLines_UpEach(n) ==
    IF n <= 0 THEN <<"\r">>
    ELSE <<ClearLineSeq, CursorUpSeq>> \o clearLines_UpEach(n - 1)

clearLines(n) == clearFrom(0, n)

\* RenderFrame(r, raw, spin, &prevLines) on a terminal of width w: the
\* writes it makes and the new *prevLines
RenderFrame(md, spin, prevL, w) ==
    LET safe == fixIncompleteMarkdown(md)
        out == Render(safe) \o <<spin>> \o <<"\n">>
    IN  [writes |-> <<[by |-> "clearLines", s |-> clearLines(prevL)],
                      [by |-> "RenderFrame", s |-> out]>>,
         prevLines |-> countVisualLines(out, w)]

\* SpinnerFrames[spinIdx % len(SpinnerFrames)]
Spinner(idx) == SpinnerFrames[(idx % Len(SpinnerFrames)) + 1]

\* Variant: a source with a URL already seen replaces the stored one
RECURSIVE collect_LastWins(_, _, _, _)
collect_LastWins(srcs, k, sn, ord) ==
    IF k > Len(srcs) THEN [seen |-> sn, order |-> ord]
    ELSE LET s == srcs[k] IN
         collect_LastWins(srcs, k + 1,
                          [u \in DOMAIN sn \cup {s.URL} |->
                              IF u = s.URL THEN s ELSE sn[u]],
                          IF s.URL \in DOMAIN sn THEN ord ELSE Append(ord, s.URL))

\* the source loop of the SOURCES case from index k on: the new seen, order
RECURSIVE collect(_, _, _, _)
collect(srcs, k, sn, ord) ==
    IF k > Len(srcs) THEN [seen |-> sn, order |-> ord]
    ELSE LET s == srcs[k] IN
         IF s.URL \in DOMAIN sn
         THEN collect(srcs, k + 1, sn, ord)
         ELSE collect(srcs, k + 1,
                      [u \in DOMAIN sn \cup {s.URL} |->
                          IF u = s.URL THEN s ELSE sn[u]],
                      Append(ord, s.URL))

\* EscapeMarkdown(s)
RECURSIVE EscapeMarkdown(_)
EscapeMarkdown(s) ==
    IF s = <<>> THEN <<>>
    ELSE (IF Head(s) = "]" THEN <<"\\", "]">> ELSE <<Head(s)>>)
             \o EscapeMarkdown(Tail(s))

\* AutoLink(url, text)
AutoLink(url, text) ==
    IF url = text THEN <<"<">> \o url \o <<">">>
    ELSE <<"[">> \o EscapeMarkdown(text) \o <<"]", "(">> \o url \o <<")">>

\* the source list as main prints it: plain when raw, else as Markdown
RECURSIVE sourceLines(_, _, _, _)
sourceLines(ord, k, sn, plain) ==
    IF k > Len(ord) THEN <<>>
    ELSE LET s == sn[ord[k]]
             entryText ==
                 IF plain
                 THEN IF s.Title # <<>>
                      THEN <<"-", " ">> \o s.Title \o <<" ", "(">> \o s.URL
                               \o <<")", "\n">>
                      ELSE <<"-", " ">> \o s.URL \o <<"\n">>
                 ELSE <<"*", " ">>
                          \o AutoLink(ord[k], IF s.Title = <<>> THEN ord[k]
                                              ELSE s.Title)
                          \o <<"\n">>
         IN  entryText \o sourceLines(ord, k + 1, sn, plain)

\* main has parsed its arguments and is about to send the request
InitMain ==
    /\ entry = "main"
    /\ pc = "request"
    /\ rawMode \in BOOLEAN
    /\ noStream \in BOOLEAN
    /\ debug \in BOOLEAN
    /\ showSources \in BOOLEAN
    /\ resp \in Responses
    /\ rdLine = <<>>
    /\ rdErr = "nil"
    /\ streaming = TRUE
    /\ buf = <<>>
    /\ prevLines = 0
    /\ spinIdx = 0
    /\ seen = <<>>
    /\ order = <<>>
    /\ stdout = <<>>
    /\ stderr = <<>>
    /\ exitCode = -1
    /\ received = <<>>
    /\ raw = <<>>
    /\ content = <<>>
    /\ prev = <<>>
    /\ LocalsUnset
    /\ VersionIdle

\* ExitCouldNotAnswer(): the warning goes to standard output, status 1
ExitCouldNotAnswer ==
    /\ stdout' = Append(stdout, [by |-> "ExitCouldNotAnswer", s |-> CouldNotAnswer])
    /\ exitCode' = 1
    /\ pc' = "exited"

\* resp, err := Do(req); if err != nil || resp.StatusCode != 200 { ... }
DoRequest ==
    /\ pc = "request"
    /\ IF resp = "error" \/ resp # "200"
       THEN ExitCouldNotAnswer
       ELSE pc' = "renderers" /\ UNCHANGED <<stdout, exitCode>>
    /\ UNCHANGED <<rawMode, noStream, debug, showSources, resp, rdLine, rdErr,
                   streaming, buf, prevLines, spinIdx, seen, order, stderr,
                   received, entry>>
    /\ UNCHANGED mdVars
    /\ UNCHANGED verVars

\* switch theme: the renderers are made, or the theme is rejected
MakeRenderers ==
    /\ pc = "renderers"
    /\ \E theme \in Themes :
           IF theme \in {"auto", "light", "dark"}
           THEN pc' = "read" /\ UNCHANGED <<stderr, exitCode>>
           ELSE /\ stderr' = Append(stderr, [by |-> "theme", s |-> <<theme>>])
                /\ exitCode' = 1
                /\ pc' = "exited"
    /\ UNCHANGED <<rawMode, noStream, debug, showSources, resp, rdLine, rdErr,
                   streaming, buf, prevLines, spinIdx, seen, order, stdout,
                   received, entry>>
    /\ UNCHANGED mdVars
    /\ UNCHANGED verVars

\* for streaming { line, rdErr := reader.ReadBytes; if rdErr == io.EOF ... }
ReadLine ==
    /\ pc = "read"
    /\ streaming
    /\ Len(received) < MaxReads
    /\ \E l \in ResponseLines, e \in ReadErrors :
           /\ rdLine' = l
           /\ rdErr' = e
           /\ streaming' = IF e = "EOF" THEN FALSE ELSE streaming
           /\ received' = Append(received, [line |-> l, err |-> e])
    /\ pc' = "process"
    /\ UNCHANGED <<rawMode, noStream, debug, showSources, resp, buf, prevLines,
                   spinIdx, seen, order, stdout, stderr, exitCode, entry>>
    /\ UNCHANGED mdVars
    /\ UNCHANGED verVars

\* the line l passes len(trimmed) > 0 and json.Unmarshal and has the chunk
\* type c
IsChunk(l, c) == ~l.blank /\ l.json /\ l.chunkType = c

\* Variant: only NO_CONTENT_SIGNAL ends the program
refuses_NoContentOnly(l) == IsChunk(l, ChunkNoContent)

\* case askdocs.ChunkNoContent, askdocs.ChunkInputFilter
refuses(l) == IsChunk(l, ChunkNoContent) \/ IsChunk(l, ChunkInputFilter)

\* Variant: raw text is echoed also with --no-stream
echo_AlsoNoStream(text) ==
    IF rawMode THEN <<[by |-> "chunk", s |-> text]>> ELSE <<>>

\* if raw && !noStream { fmt.Print(jl.Text) }
echo(text) ==
    IF rawMode /\ ~noStream THEN <<[by |-> "chunk", s |-> text]>> ELSE <<>>

\* the part of the loop body that handles the line read
ProcessLine ==
    /\ pc = "process"
    /\ stderr' = IF ~rdLine.blank /\ debug
                 THEN Append(stderr, [by |-> "debug", s |-> <<rdLine>>])
                 ELSE stderr
    /\ IF refuses(rdLine)
       THEN /\ ExitCouldNotAnswer
            /\ UNCHANGED <<buf, seen, order>>
       ELSE /\ pc' = "frame"
            /\ exitCode' = exitCode
            /\ IF IsChunk(rdLine, ChunkMessage)
               THEN /\ buf' = buf \o rdLine.text
                    /\ stdout' = stdout \o echo(rdLine.text)
                    /\ UNCHANGED <<seen, order>>
               ELSE IF IsChunk(rdLine, ChunkSources) /\ rdLine.sources.valid
               THEN /\ seen' = collect(rdLine.sources.list, 1, seen, order).seen
                    /\ order' = collect(rdLine.sources.list, 1, seen, order).order
                    /\ UNCHANGED <<buf, stdout>>
               ELSE UNCHANGED <<buf, stdout, seen, order>>
    /\ UNCHANGED <<rawMode, noStream, debug, showSources, resp, rdLine, rdErr,
                   streaming, prevLines, spinIdx, received, entry>>
    /\ UNCHANGED mdVars
    /\ UNCHANGED verVars

\* the frame / spinner part of the loop body and the loop test
FrameOrSpinner ==
    /\ pc = "frame"
    /\ IF noStream
       THEN /\ stderr' = Append(stderr, [by |-> "RenderSpinner",
                                         s |-> <<"\r", Spinner(spinIdx)>>])
            /\ spinIdx' = spinIdx + 1
            /\ pc' = IF streaming THEN "read" ELSE "afterLoop"
            /\ UNCHANGED <<stdout, prevLines, exitCode>>
       ELSE /\ stderr' = stderr
            /\ IF ~rawMode
               THEN \E w \in TerminalWidths :
                        LET f == RenderFrame(buf, Spinner(spinIdx), prevLines, w)
                        IN  /\ prevLines' = f.prevLines
                            /\ spinIdx' = spinIdx + 1
                            /\ IF ~streaming /\ rdErr # "nil" /\ rdErr # "EOF"
                               THEN /\ stdout' = (stdout \o f.writes) \o
                                        <<[by |-> "ExitCouldNotAnswer",
                                           s |-> CouldNotAnswer]>>
                                    /\ exitCode' = 1
                                    /\ pc' = "exited"
                               ELSE /\ stdout' = stdout \o f.writes
                                    /\ exitCode' = exitCode
                                    /\ pc' = IF streaming THEN "read"
                                             ELSE "afterLoop"
               ELSE /\ UNCHANGED <<prevLines, spinIdx>>
                    /\ IF ~streaming /\ rdErr # "nil" /\ rdErr # "EOF"
                       THEN ExitCouldNotAnswer
                       ELSE /\ pc' = IF streaming THEN "read" ELSE "afterLoop"
                            /\ UNCHANGED <<stdout, exitCode>>
    /\ UNCHANGED <<rawMode, noStream, debug, showSources, resp, rdLine, rdErr,
                   streaming, buf, seen, order, received, entry>>
    /\ UNCHANGED mdVars
    /\ UNCHANGED verVars

\* what main writes to standard output after the loop: the final repaint or
\* the buffered answer, then the sources
finalWrites(w) ==
    (IF noStream
     THEN <<[by |-> "answer", s |-> IF rawMode THEN buf ELSE Render(buf)],
            [by |-> "Println", s |-> <<"\n">>]>>
     ELSE IF ~rawMode
     THEN RenderFrame(buf, " ", prevLines, w).writes
              \o <<[by |-> "Println", s |-> <<"\n">>]>>
     ELSE <<>>)
    \o (IF showSources /\ Len(order) > 0
        THEN IF rawMode
             THEN <<[by |-> "sources",
                     s |-> <<"\n", "Sources:", "\n">>
                               \o sourceLines(order, 1, seen, TRUE)]>>
             ELSE <<[by |-> "sources",
                     s |-> Render(<<"### Sources", "\n">>
                                      \o sourceLines(order, 1, seen, FALSE))]>>
        ELSE <<>>)

\* the loop has ended: spinner cleared or final repaint, the buffered
\* answer in no-stream mode, the sources; main returns
AfterLoop ==
    /\ pc = "afterLoop"
    /\ stderr' = IF noStream
                 THEN Append(stderr, [by |-> "clearSpinner", s |-> <<"\r", " ", "\r">>])
                 ELSE stderr
    /\ \E w \in TerminalWidths :
           /\ stdout' = stdout \o finalWrites(w)
           /\ prevLines' = IF ~noStream /\ ~rawMode
                           THEN RenderFrame(buf, " ", prevLines, w).prevLines
                           ELSE prevLines
    /\ exitCode' = 0
    /\ pc' = "exited"
    /\ UNCHANGED <<rawMode, noStream, debug, showSources, resp, rdLine, rdErr,
                   streaming, buf, spinIdx, seen, order, received, entry>>
    /\ UNCHANGED mdVars
    /\ UNCHANGED verVars

NextMain ==
    \/ DoRequest
    \/ MakeRenderers
    \/ ReadLine
    \/ ProcessLine
    \/ FrameOrSpinner
    \/ AfterLoop

SpecMain == InitMain /\ [][NextMain]_vars

----------------------------------------------------------------------------
(* Vocabulary of the properties. *)

Returned == pc = "done"

Odd(n) == n % 2 = 1

\* every c in s has a d somewhere after it
ClosedBy(s, c, d) ==
    \A k \in Positions(s, c) : \E j \in (k + 1)..Len(s) : s[j] = d

\* the state of the table scan before line k (1-based) of the lines ls is read
RECURSIVE InTableAt(_, _)
InTableAt(ls, k) ==
    IF k <= 1 THEN FALSE
    ELSE IF ~tableLineRe(ls[k - 1]) THEN FALSE
    ELSE IF InTableAt(ls, k - 1) THEN TRUE
    ELSE k <= Len(ls) /\ tableSepRe(ls[k])

\* line k is the header of a recognised table
IsHeader(ls, k) ==
    /\ k < Len(ls)
    /\ tableLineRe(ls[k])
    /\ ~InTableAt(ls, k)
    /\ tableSepRe(ls[k + 1])

\* the header of the table that line k lies in
HeaderOf(ls, k) == Max({h \in 1..(k - 1) : IsHeader(ls, h)})

\* line k is a row of a recognised table that comes after its separator
IsBodyRow(ls, k) ==
    /\ InTableAt(ls, k)
    /\ tableLineRe(ls[k])
    /\ k > HeaderOf(ls, k) + 1

Pipes(line) == Cardinality(Positions(line, "|"))

TableRowsPadded(s) ==
    LET ls == Split(s)
    IN  \A k \in 1..Len(ls) :
            IsBodyRow(ls, k) => Pipes(ls[k]) >= Pipes(ls[HeaderOf(ls, k)])

\* the balance conditions of C5 on a buffer
WellFormed(s) ==
    /\ ~Odd(Count(s, Fence))
    /\ ~Odd(Cardinality(Positions(s, BT)))
    /\ ClosedBy(s, "[", "]")
    /\ ClosedBy(s, "(", ")")
    /\ scanFrom(s, 0, <<>>) = <<>>
    /\ TableRowsPadded(s)

----------------------------------------------------------------------------
(* C1: repairing the returned buffer once more returns it unchanged.       *)
C1_Idempotent == Returned => fixIncompleteMarkdown(content) = content

(* C2: the returned buffer holds an even number of triple-backtick         *)
(* occurrences, counted left to right without overlap.                     *)
C2_FenceParity == Returned => ~Odd(Count(content, Fence))

(* C3: scanning the returned buffer with the tokenizer and push/pop rule   *)
(* of the emphasis closer ends with an empty stack.                        *)
C3_EmphasisBalanced == Returned => scanFrom(content, 0, <<>>) = <<>>

(* C4: once the inline code closer has run, the buffer holds an even       *)
(* number of backticks, up to and including the returned buffer.           *)
C4_BacktickParity ==
    pc \in {"fixLinks", "fixImages", "fixEmphasis", "scan", "fixTables",
            "tableLoop", "done"}
        => ~Odd(Cardinality(Positions(content, BT)))

\* an odd number of backticks came in and a later repair appended as well
C4_Witness ==
    /\ Returned
    /\ Odd(Cardinality(Positions(raw, BT)))
    /\ Count(raw, Fence) = 0
    /\ Len(content) > Len(raw) + 1

(* C5: a buffer that meets every balance condition is returned byte for    *)
(* byte.                                                                   *)
C5_NoOpOnWellFormed == Returned /\ WellFormed(raw) => content = raw

(* C6: from the return of the image closer on, every "[" has a later     *)
(* "]", every "](" has a later ")", and every "![" followed, with no "]"  *)
(* in between, by a "(" has a ")" after that "(".                          *)
C6_BracketsClosed ==
    pc \in {"fixEmphasis", "scan", "fixTables", "tableLoop", "done"} =>
        /\ ClosedBy(content, "[", "]")
        /\ \A k \in 1..(Len(content) - 1) :
               (content[k] = "]" /\ content[k + 1] = "(")
                   => \E j \in (k + 2)..Len(content) : content[j] = ")"
        /\ \A k \in 1..(Len(content) - 2) : \A m \in (k + 2)..Len(content) :
               ( /\ content[k] = "!"
                 /\ content[k + 1] = "["
                 /\ content[m] = "("
                 /\ \A j \in (k + 2)..(m - 1) : content[j] # "]" )
                   => \E j \in (m + 1)..Len(content) : content[j] = ")"

\* the buffer came in with an open "[" and an open "](", and the emphasis
\* closer appended after both were closed
C6_Witness ==
    /\ Returned
    /\ ~ClosedBy(raw, "[", "]")
    /\ linkURLRe(raw)
    /\ scanFrom(raw, 0, <<>>) # <<>>

(* C7: no call fails at run time, every iteration of the emphasis scan     *)
(* moves the index strictly forward and never past the end of the buffer,  *)
(* and the empty buffer is returned empty.                                 *)
C7_Total ==
    /\ [](pc # "panic")
    /\ [][(pc = "scan" /\ pc' = "scan") => (i' > i /\ i' <= Len(content))]_vars
    /\ [](Returned /\ raw = <<>> => content = <<>>)

\* a buffer with no "[" at all went through both closers and its scan ended
C7_Witness ==
    /\ pc = "scan"
    /\ Positions(raw, "[") = {}
    /\ Len(content) > 0
    /\ i = Len(content)

\* the first of "***", "**", "__", "*", "_", "~~", "~" that s continues with
\* at index k, or the empty sequence when there is none
C8_TokenAt(s, k) ==
    IF HasPrefixAt(s, k, <<"*", "*", "*">>) THEN <<"*", "*", "*">>
    ELSE IF HasPrefixAt(s, k, <<"*", "*">>) THEN <<"*", "*">>
    ELSE IF HasPrefixAt(s, k, <<"_", "_">>) THEN <<"_", "_">>
    ELSE IF HasPrefixAt(s, k, <<"*">>) THEN <<"*">>
    ELSE IF HasPrefixAt(s, k, <<"_">>) THEN <<"_">>
    ELSE IF HasPrefixAt(s, k, <<"~", "~">>) THEN <<"~", "~">>
    ELSE IF HasPrefixAt(s, k, <<"~">>) THEN <<"~">>
    ELSE <<>>

\* the tokens of a stack written out from its top to its bottom
RECURSIVE C8_TopToBottom(_)
C8_TopToBottom(st) ==
    IF st = <<>> THEN <<>>
    ELSE st[Len(st)] \o C8_TopToBottom(SubSeq(st, 1, Len(st) - 1))

(* C8: the emphasis scan starts at index 0 with an empty stack; each       *)
(* iteration takes the first listed token the text continues with (or      *)
(* moves on one character), pops it when it equals the top of the stack    *)
(* and pushes it otherwise; the result is the input followed by the        *)
(* stack's tokens from top to bottom.                                      *)
C8_EmphasisResult ==
    [][ /\ (pc = "fixEmphasis" => (i' = 0 /\ stack' = <<>> /\ content' = content))
        /\ (pc = "scan" /\ pc' = "scan" =>
               LET tok == C8_TokenAt(content, i) IN
               /\ content' = content
               /\ IF tok = <<>>
                  THEN i' = i + 1 /\ stack' = stack
                  ELSE /\ i' = i + Len(tok)
                       /\ stack' = IF stack # <<>> /\ stack[Len(stack)] = tok
                                   THEN SubSeq(stack, 1, Len(stack) - 1)
                                   ELSE stack \o <<tok>>)
        /\ (pc = "scan" /\ pc' # "scan" =>
               /\ i >= Len(content)
               /\ content' = prev \o C8_TopToBottom(stack))
      ]_vars

\* "_" was opened, then "**", and the closer appended "**_"
C8_Witness ==
    /\ pc = "fixTables"
    /\ stack = << <<"_">>, <<"*", "*">> >>
    /\ content = prev \o <<"*", "*", "_">>

\* the length of the run of backticks that starts at position k (1-based)
C9_RunLen(s, k) ==
    Min({j \in k..(Len(s) + 1) : j = Len(s) + 1 \/ s[j] # BT}) - k

RECURSIVE C9_SumFences(_, _)
C9_SumFences(s, starts) ==
    IF starts = {} THEN 0
    ELSE LET k == Min(starts)
         IN  (C9_RunLen(s, k) \div 3) + C9_SumFences(s, starts \ {k})

\* the non-overlapping triple-backtick occurrences of s: each maximal run
\* of n backticks holds n \div 3 of them
C9_Fences(s) ==
    C9_SumFences(s, {k \in Positions(s, BT) : k = 1 \/ s[k - 1] # BT})

(* C9: the fence closer returns its argument followed by a newline and a   *)
(* fence when the argument holds an odd number of fences, and its argument *)
(* unchanged otherwise.                                                    *)
C9_FenceCloser ==
    pc = "fixInlineCode" =>
        content = IF Odd(C9_Fences(prev)) THEN prev \o <<"\n", BT, BT, BT>> ELSE prev

\* a run of four or five backticks, one fence occurrence, was closed
C9_Witness ==
    /\ pc = "fixInlineCode"
    /\ \E k \in Positions(prev, BT) : C9_RunLen(prev, k) > 3
    /\ C9_Fences(prev) = 1
    /\ content # prev

(* C10: the inline code closer returns its argument, the fence closer's    *)
(* result, followed by one backtick when the argument holds an odd number  *)
(* of backticks and unchanged otherwise; a buffer whose only backticks are *)
(* one fence leaves it as the buffer, a newline and a fence.               *)
C10_InlineCodeCloser ==
    pc = "fixLinks" =>
        /\ content = IF Odd(Cardinality(Positions(prev, BT)))
                     THEN prev \o <<BT>> ELSE prev
        /\ (Cardinality(Positions(raw, BT)) = 3 /\ Contains(raw, <<BT, BT, BT>>))
               => content = raw \o <<"\n", BT, BT, BT>>

\* one unterminated fence came in: closed by a fence, no further backtick
C10_Witness ==
    /\ pc = "fixLinks"
    /\ Cardinality(Positions(raw, BT)) = 3
    /\ Contains(raw, <<BT, BT, BT>>)
    /\ prev = raw \o <<"\n", BT, BT, BT>>
    /\ content = prev


----------------------------------------------------------------------------
(* The link and image closers on their own. *)

\* the function f has just returned: to the caller that called it on its
\* own, or to fixIncompleteMarkdown, which goes on with next
JustRan(f, next) ==
    \/ entry = f /\ pc = "done"
    \/ entry = "fixIncompleteMarkdown" /\ pc = next

\* s holds the marker open and no "]" at or after the last one
NoCloseAfterLast(s, open) ==
    /\ LastIndex(s, open) >= 0
    /\ \A j \in (LastIndex(s, open) + 1)..Len(s) : s[j] # "]"

\* s holds "](" with no ")" from there to the end
OpenURL(s) ==
    \E k \in Positions(s, "(") :
        /\ k > 1
        /\ s[k - 1] = "]"
        /\ Positions(s, ")") \cap (k..Len(s)) = {}

\* the buffer after the text check of fixLinks, as C11 states it
AfterTextCheck(s) == IF NoCloseAfterLast(s, <<"[">>) THEN s \o <<"]">> ELSE s

\* C11: the first check of fixLinks appends one "]" exactly when the buffer
\* holds a "[" and no "]" at or after the last "["; otherwise it appends
\* nothing (what follows in the result is at most the ")" of the second check).
C11_LinkTextCloser ==
    JustRan("fixLinks", "fixImages") =>
        content \in {AfterTextCheck(prev), AfterTextCheck(prev) \o <<")">>}

\* a "]" was appended to a buffer that already held a closed bracket pair
C11_Witness ==
    /\ JustRan("fixLinks", "fixImages")
    /\ Positions(prev, "]") # {}
    /\ Cardinality(Positions(prev, "[")) >= 2
    /\ content = prev \o <<"]">>

\* C12: the second check of fixLinks appends one ")" exactly when the buffer
\* after the text check holds "](" with no ")" between that "(" and the end;
\* a buffer whose link URL is closed gets no second ")".
C12_LinkURLCloser ==
    JustRan("fixLinks", "fixImages") =>
        content = IF OpenURL(AfterTextCheck(prev))
                  THEN AfterTextCheck(prev) \o <<")">>
                  ELSE AfterTextCheck(prev)

\* a ")" was appended behind trailing white space to a buffer that holds
\* an earlier ")"
C12_Witness ==
    /\ JustRan("fixLinks", "fixImages")
    /\ Len(prev) > 0
    /\ prev[Len(prev)] = " "
    /\ Positions(prev, ")") # {}
    /\ content = prev \o <<")">>


\* the buffer after the alt-text check of fixImages, as C13 states it
AfterAltCheck(s) == IF NoCloseAfterLast(s, <<"!", "[">>) THEN s \o <<"]">> ELSE s

\* the positions (1-based, of the "!") where "![" stands in s
ImagePositions(s) == {k \in 1..(Len(s) - 1) : s[k] = "!" /\ s[k + 1] = "["}

\* C13: fixImages appends one "]" exactly when the buffer holds "![" and no
\* "]" at or after the last "!["; with several images open only one "]" is
\* appended, and a buffer whose last image has its alt text closed gets none
\* (what follows in the result is at most the ")" of the second check).
C13_ImageAltCloser ==
    JustRan("fixImages", "fixEmphasis") =>
        content \in {AfterAltCheck(prev), AfterAltCheck(prev) \o <<")">>}

\* fixImages was called on its own with two open images and appended one "]"
C13_Witness ==
    /\ entry = "fixImages"
    /\ pc = "done"
    /\ Cardinality(ImagePositions(raw)) >= 2
    /\ Positions(raw, "]") = {}
    /\ content = raw \o <<"]">>

\* s is "![" alt "]" "(" url: alt free of "]" and "(", url free of ")" and "["
ClosedAltOpenURL(s) ==
    \E k \in 3..(Len(s) - 1) :
        /\ s[1] = "!"
        /\ s[2] = "["
        /\ \A j \in 3..(k - 1) : s[j] \notin {"]", "("}
        /\ s[k] = "]"
        /\ s[k + 1] = "("
        /\ \A j \in (k + 2)..Len(s) : s[j] \notin {")", "["}

\* some "![" of s is followed, with no "]" in between, by a "(" that has no
\* later ")"
OpenParenInAlt(s) ==
    \E k \in ImagePositions(s) : \E m \in (k + 2)..Len(s) :
        /\ s[m] = "("
        /\ Positions(s, "]") \cap ((k + 2)..(m - 1)) = {}
        /\ Positions(s, ")") \cap ((m + 1)..Len(s)) = {}

NothingElseOpen(s) ==
    /\ \A k \in 1..Len(s) : s[k] \notin {"*", "_", "~"}
    /\ ~Odd(Cardinality(Positions(s, BT)))
    /\ ~Odd(Count(s, Fence))

\* C15: fixIncompleteMarkdown closes an unterminated image URL: a buffer
\* "![" alt "]" "(" url with no ")" after the "(" and nothing else open comes
\* back with exactly one ")" appended.
C15_ImageURLClosed ==
    (entry = "fixIncompleteMarkdown" /\ Returned
         /\ ClosedAltOpenURL(raw) /\ NothingElseOpen(raw))
        => content = raw \o <<")">>

\* the pipeline returned an image with a non-empty open URL, closed
C15_Witness ==
    /\ entry = "fixIncompleteMarkdown"
    /\ Returned
    /\ ClosedAltOpenURL(raw)
    /\ NothingElseOpen(raw)
    /\ Len(raw) > Len(ImageHead)
    /\ content = raw \o <<")">>

\* the last "[" of s has a "]" after it
LastBracketClosed(s) ==
    /\ LastIndex(s, <<"[">>) >= 0
    /\ \E j \in (LastIndex(s, <<"[">>) + 2)..Len(s) : s[j] = "]"

\* C16: when the last "[" of its argument has a later "]", neither fixLinks
\* nor fixImages appends "]" (the result is the argument, or the argument
\* and a ")"), also when an earlier "![" is still open; and
\* fixIncompleteMarkdown returns "Text ![alt with [nested] brackets" unchanged.
C16_NestedBracketsLeftOpen ==
    /\ ((JustRan("fixLinks", "fixImages") \/ JustRan("fixImages", "fixEmphasis"))
            /\ LastBracketClosed(prev))
           => content \in {prev, prev \o <<")">>}
    /\ (entry = "fixIncompleteMarkdown" /\ Returned /\ raw = NestedImage)
           => content = raw

\* the pipeline returned the nested-image buffer, whose "![" is still open
C16_Witness ==
    /\ entry = "fixIncompleteMarkdown"
    /\ Returned
    /\ raw = NestedImage
    /\ LastBracketClosed(raw)
    /\ Cardinality(Positions(raw, "[")) > Cardinality(Positions(raw, "]"))
    /\ content = raw



----------------------------------------------------------------------------
(* The table padder. *)

\* the lines fixTables was given and the lines it returned
LinesIn == Split(prev)
LinesOut == Split(content)

\* line k is a candidate line read while the scan is inside a table
InTableRow(ls, k) == InTableAt(ls, k) /\ tableLineRe(ls[k])

\* line with " |" appended for each pipe it lacks of h
Padded(line, h) == TrimRight(line) \o Repeat(<<" ", "|">>, h - Pipes(line))

\* C17: a candidate line read while in a recognised table whose pipe count p
\* is below the header's pipe count h comes back as the line without its
\* trailing blanks followed by " |" repeated h - p times, and so holds
\* exactly h pipes; a row with p >= h comes back unchanged.
C17_RowPadding ==
    JustRan("fixTables", "done") =>
        /\ Len(LinesOut) = Len(LinesIn)
        /\ \A k \in 1..Len(LinesIn) :
               InTableRow(LinesIn, k) =>
                   LET h == Pipes(LinesIn[HeaderOf(LinesIn, k)])
                       p == Pipes(LinesIn[k])
                   IN  IF p < h
                       THEN /\ LinesOut[k] = Padded(LinesIn[k], h)
                            /\ Pipes(LinesOut[k]) = h
                            /\ LinesOut[k][Len(LinesOut[k])] = "|"
                       ELSE LinesOut[k] = LinesIn[k]

\* fixTables was called on its own and padded a row behind the separator
\* that ended with a blank
C17_Witness ==
    /\ entry = "fixTables"
    /\ pc = "done"
    /\ \E k \in 1..Len(LinesIn) :
           /\ IsBodyRow(LinesIn, k)
           /\ LinesIn[k][Len(LinesIn[k])] = " "
           /\ LinesOut[k] = TrimRight(LinesIn[k]) \o <<" ", "|">>

\* C18: the header line and the separator line of a recognised table come
\* back unmodified whatever their pipe counts; only rows after the separator
\* are ever changed.
C18_HeaderSeparatorKept ==
    JustRan("fixTables", "done") =>
        /\ Len(LinesOut) = Len(LinesIn)
        /\ \A k \in 1..Len(LinesIn) :
               /\ IsHeader(LinesIn, k) =>
                      /\ LinesOut[k] = LinesIn[k]
                      /\ LinesOut[k + 1] = LinesIn[k + 1]
               /\ LinesOut[k] # LinesIn[k] => IsBodyRow(LinesIn, k)

\* the run of consecutive candidate lines that the candidate line k lies in
RunStart(ls, k) == Min({a \in 1..k : \A j \in a..k : tableLineRe(ls[j])})
RunEnd(ls, k) == Max({b \in k..Len(ls) : \A j \in k..b : tableLineRe(ls[j])})

\* one iteration of the loop of fixTables: a line that is no candidate
\* clears the scan state, and a line is changed only while inTable is set
ScanStateStep ==
    (pc = "tableLoop" /\ tableI' = tableI + 1) =>
        /\ ~tableLineRe(lines[tableI + 1]) => (~inTable' /\ headerPipes' = 0)
        /\ lines' # lines => (inTable /\ tableLineRe(lines[tableI + 1]))

\* a candidate line that follows a line that is no candidate comes back as
\* it was
AfterNonTableKept ==
    JustRan("fixTables", "done") =>
        \A k \in 2..Len(LinesIn) :
            (tableLineRe(LinesIn[k]) /\ ~tableLineRe(LinesIn[k - 1]))
                => LinesOut[k] = LinesIn[k]

\* The statement of C19 as the specification words it: a run of pipe lines
\* whose second line is no separator is never modified.
C19_AsStated ==
    /\ [][ScanStateStep]_vars
    /\ [](AfterNonTableKept)
    /\ [](JustRan("fixTables", "done") =>
             \A k \in 1..Len(LinesIn) :
                 (/\ tableLineRe(LinesIn[k])
                  /\ ~(/\ RunStart(LinesIn, k) < RunEnd(LinesIn, k)
                       /\ tableSepRe(LinesIn[RunStart(LinesIn, k) + 1])))
                     => LinesOut[k] = LinesIn[k])

\* C19: a line that is no candidate sets inTable to false and headerPipes to
\* 0 whatever the state, and a candidate line is padded only while inTable
\* is true; hence a pipe line that follows a non-table line, or a run of
\* pipe lines none of which is immediately followed by a separator line, is
\* never modified.
C19_ScanState ==
    /\ [][ScanStateStep]_vars
    /\ [](AfterNonTableKept)
    /\ [](JustRan("fixTables", "done") =>
             \A k \in 1..Len(LinesIn) :
                 (/\ tableLineRe(LinesIn[k])
                  /\ \A j \in (RunStart(LinesIn, k) + 1)..RunEnd(LinesIn, k) :
                         ~tableSepRe(LinesIn[j]))
                     => LinesOut[k] = LinesIn[k])

\* fixTables was called on its own; after a table a line that is no
\* candidate came, and the short pipe line behind it came back as it was
C19_Witness ==
    /\ entry = "fixTables"
    /\ pc = "done"
    /\ \E k \in 1..(Len(LinesIn) - 3) :
           /\ IsHeader(LinesIn, k)
           /\ ~tableLineRe(LinesIn[k + 2])
           /\ tableLineRe(LinesIn[k + 3])
           /\ Pipes(LinesIn[k + 3]) < Pipes(LinesIn[k])
           /\ LinesOut[k + 3] = LinesIn[k + 3]



----------------------------------------------------------------------------
(* Version normalisation. *)

\* V is supported: in the file's list, or, when the file cannot be loaded,
\* one of 3.11 to 3.17
Supported(V) ==
    IF versionsFile.loaded
    THEN V \in {versionsFile.supportedVersions[k] :
                   k \in 1..Len(versionsFile.supportedVersions)}
    ELSE V \in {V3(<<"1", d>>) : d \in {"1", "2", "3", "4", "5", "6", "7"}}

\* the value C20 gives for the argument version
ExpectedVersion ==
    IF version = FreeProTeam \/ version = EnterpriseCloud
    THEN version \o AtLatest
    ELSE IF /\ Len(version) >= Len(EnterpriseServerAt)
            /\ SubSeq(version, 1, Len(EnterpriseServerAt)) = EnterpriseServerAt
    THEN LET V == SubSeq(version, Len(EnterpriseServerAt) + 1, Len(version)) IN
         IF V = Latest \/ Supported(V) THEN version
         ELSE IF versionsFile.loaded /\ versionsFile.latestVersion # <<>>
         THEN EnterpriseServerAt \o versionsFile.latestVersion
         ELSE EnterpriseServerAt \o <<"3", ".", "1", "5">>
    ELSE FreeProTeam \o AtLatest

\* C20: NormalizeVersion maps free-pro-team and enterprise-cloud to the
\* same value with @latest appended, returns enterprise-server@latest and
\* enterprise-server@V for a supported V unchanged, maps enterprise-server@V
\* for an unsupported V (the empty one too) to enterprise-server@ plus the
\* file's latestVersion when the file loads and names one and to
\* enterprise-server@3.15 otherwise, and maps every other argument to
\* free-pro-team@latest.
C20_NormalizeVersion ==
    (entry = "NormalizeVersion" /\ pc = "done") => result = ExpectedVersion

\* NormalizeVersion replaced an unsupported version that the hardcoded list
\* holds by the latestVersion of a loaded file
C20_Witness ==
    /\ entry = "NormalizeVersion"
    /\ pc = "done"
    /\ version = EnterpriseServerAt \o V3(<<"1", "5">>)
    /\ versionsFile.loaded
    /\ versionsFile.latestVersion # <<>>
    /\ result = EnterpriseServerAt \o versionsFile.latestVersion
    /\ result # version



----------------------------------------------------------------------------
(* The program: request, read loop, frames, output. *)

\* the characters of the spinner
SpinnerRunes == {SpinnerFrames[k] : k \in 1..Len(SpinnerFrames)}

\* the write w is a frame that carries a spinner character
IsSpinnerFrame(w) ==
    \/ w.by = "RenderSpinner"
    \/ /\ w.by = "RenderFrame"
       /\ Len(w.s) >= 2
       /\ w.s[Len(w.s) - 1] \in SpinnerRunes

\* C21: in every mode no spinner frame and no debugging data is written to
\* standard output.
C21_SpinnerAndDebugOnStderr ==
    \A k \in 1..Len(stdout) : ~IsSpinnerFrame(stdout[k]) /\ stdout[k].by # "debug"

\* the reads whose line has been handled by the loop body
Handled ==
    IF pc = "process" THEN SubSeq(received, 1, Len(received) - 1) ELSE received

\* the texts of the message chunks among the reads rs, concatenated in order
RECURSIVE MessageText(_)
MessageText(rs) ==
    IF rs = <<>> THEN <<>>
    ELSE (IF IsChunk(Head(rs).line, ChunkMessage) THEN Head(rs).line.text ELSE <<>>)
             \o MessageText(Tail(rs))

\* the writes to standard output that carry answer text
AnswerWrites ==
    {k \in 1..Len(stdout) : stdout[k].by \in {"chunk", "answer", "RenderFrame"}}

\* C22: with --no-stream nothing of the answer is written to standard output
\* while the loop reads; when main has returned, the answer has been written
\* once, after the read that gave end of stream, and it is the concatenation
\* of the texts of all MESSAGE_CHUNK lines in arrival order, rendered unless
\* --no-render is set.
C22_NoStreamOutput ==
    (entry = "main" /\ noStream) =>
        /\ exitCode # 0 => AnswerWrites = {}
        /\ exitCode = 0 =>
               /\ Cardinality(AnswerWrites) = 1
               /\ \A k \in AnswerWrites :
                      /\ stdout[k].by = "answer"
                      /\ stdout[k].s = IF rawMode THEN MessageText(received)
                                       ELSE Render(MessageText(received))
               /\ received[Len(received)].err = "EOF"

\* main returned in no-stream mode after two message chunks of different
\* text and wrote the rendered answer
C22_Witness ==
    /\ entry = "main"
    /\ noStream
    /\ ~rawMode
    /\ exitCode = 0
    /\ Len(received) = 2
    /\ IsChunk(received[1].line, ChunkMessage)
    /\ IsChunk(received[2].line, ChunkMessage)
    /\ received[1].line.text # received[2].line.text
    /\ \E k \in 1..Len(stdout) :
           stdout[k].s = Render(received[1].line.text \o received[2].line.text)



\* the warning is the last write on standard output
WarningLast ==
    /\ Len(stdout) > 0
    /\ stdout[Len(stdout)] = [by |-> "ExitCouldNotAnswer", s |-> CouldNotAnswer]

\* the line l is JSON with chunk type NO_CONTENT_SIGNAL or INPUT_CONTENT_FILTER
IsRefusal(l) ==
    /\ ~l.blank
    /\ l.json
    /\ l.chunkType \in {"NO_CONTENT_SIGNAL", "INPUT_CONTENT_FILTER"}

\* the step main takes when the request has not come back with status 200,
\* or when the line just read is a refusal chunk: the warning is appended
\* to standard output and the process ends with status 1
CouldNotAnswerStep ==
    ((pc = "request" /\ resp # "200") \/ (pc = "process" /\ IsRefusal(rdLine)))
        => /\ stdout' = Append(stdout, [by |-> "ExitCouldNotAnswer",
                                        s |-> CouldNotAnswer])
           /\ exitCode' = 1
           /\ pc' = "exited"

\* C23: when the request fails or returns a status other than 200, or when
\* a NO_CONTENT_SIGNAL or INPUT_CONTENT_FILTER chunk is read at any point of
\* the stream, the program prints the warning to standard output and exits
\* with status 1; once it has exited it takes no further step, so no later
\* chunk is read or handled.
C23_CouldNotAnswerExit ==
    /\ [][CouldNotAnswerStep]_vars
    /\ [][pc # "exited"]_vars
    /\ []((entry = "main" /\ pc = "exited" /\ Len(received) > 0
              /\ IsRefusal(received[Len(received)].line))
             => (exitCode = 1 /\ WarningLast))

\* the program exited on INPUT_CONTENT_FILTER read after a message chunk
\* had been buffered
C23_Witness ==
    /\ entry = "main"
    /\ pc = "exited"
    /\ exitCode = 1
    /\ buf # <<>>
    /\ Len(received) = 2
    /\ received[2].line.chunkType = "INPUT_CONTENT_FILTER"
    /\ WarningLast

\* the number of elements of s that equal c
Occurrences(s, c) == Cardinality({k \in 1..Len(s) : s[k] = c})

\* the text clears n terminal lines: n clear-line sequences, each but the
\* last followed by a cursor-up sequence, then one carriage return
ClearsLines(s, n) ==
    /\ Occurrences(s, ClearLineSeq) = n
    /\ Occurrences(s, CursorUpSeq) = IF n = 0 THEN 0 ELSE n - 1
    /\ Occurrences(s, "\r") = 1
    /\ Len(s) = n + (IF n = 0 THEN 0 ELSE n - 1) + 1
    /\ s[Len(s)] = "\r"
    /\ \A k \in 1..(Len(s) - 1) :
           s[k] = (IF k % 2 = 1 THEN ClearLineSeq ELSE CursorUpSeq)

\* the positions on standard output of the frames and of the erasures
FrameWrites == {k \in 1..Len(stdout) : stdout[k].by = "RenderFrame"}
ClearWrites == {k \in 1..Len(stdout) : stdout[k].by = "clearLines"}

\* the visual line counts the text s can have on the terminal
VisualLines(s) == {countVisualLines(s, w) : w \in TerminalWidths}

\* a step in which RenderFrame is called: it erases prevLines lines, writes
\* the frame and sets prevLines to the visual line count of the frame
RenderFrameStep ==
    (entry = "main" /\ ~noStream /\ ~rawMode /\ pc \in {"frame", "afterLoop"})
        => LET spin == IF pc = "frame" THEN Spinner(spinIdx) ELSE " "
               frame == Render(fixIncompleteMarkdown(buf)) \o <<spin, "\n">>
           IN  /\ Len(stdout') >= Len(stdout) + 2
               /\ SubSeq(stdout', 1, Len(stdout)) = stdout
               /\ stdout'[Len(stdout) + 1].by = "clearLines"
               /\ ClearsLines(stdout'[Len(stdout) + 1].s, prevLines)
               /\ stdout'[Len(stdout) + 2] = [by |-> "RenderFrame", s |-> frame]
               /\ prevLines' \in VisualLines(frame)

\* C24: each RenderFrame call first erases exactly *prevLines terminal lines
\* (n clear-line sequences, n - 1 cursor-up sequences, one carriage return;
\* for 0 only the carriage return), then writes the new frame (rendered
\* repaired Markdown, spinner, newline), then sets *prevLines to the visual
\* line count of what it wrote; so every erasure comes right before a
\* frame, the first erases no line and each later one erases as many lines
\* as were counted for the frame before it.
C24_FrameCompositing ==
    /\ [][RenderFrameStep]_vars
    /\ [](entry = "main" =>
             \A k \in ClearWrites :
                 /\ k + 1 \in FrameWrites
                 /\ IF \A j \in FrameWrites : j > k
                    THEN ClearsLines(stdout[k].s, 0)
                    ELSE \E n \in VisualLines(
                                 stdout[Max({j \in FrameWrites : j < k})].s) :
                             ClearsLines(stdout[k].s, n))
    /\ [](entry = "main" => \A k \in FrameWrites : k - 1 \in ClearWrites)

\* three frames were written, and the third erased more than one wrapped
\* line of the second
C24_Witness ==
    /\ entry = "main"
    /\ Cardinality(FrameWrites) = 3
    /\ \E k \in ClearWrites :
           /\ Occurrences(stdout[k].s, ClearLineSeq) > 4
           /\ Occurrences(stdout[k].s, CursorUpSeq) > 3
    /\ prevLines > 4



\* the sources of the SOURCES chunks among the reads rs, in arrival order
RECURSIVE SourcesOf(_)
SourcesOf(rs) ==
    IF rs = <<>> THEN <<>>
    ELSE (IF IsChunk(Head(rs).line, ChunkSources) /\ Head(rs).line.sources.valid
          THEN Head(rs).line.sources.list ELSE <<>>)
             \o SourcesOf(Tail(rs))

\* the index of the first source of all that has the URL u
FirstWith(all, u) == Min({k \in 1..Len(all) : all[k].URL = u})

\* C25: after any sequence of SOURCES chunks the list order holds each URL
\* at most once, in order of first appearance; its URLs are the keys of
\* seen, which are the URLs received; and seen holds for each URL the first
\* Source received with it, so a later source with a URL already seen
\* changes neither.
C25_SourceCollection ==
    entry = "main" =>
        LET all == SourcesOf(Handled) IN
        /\ \A a, b \in 1..Len(order) : a < b => order[a] # order[b]
        /\ {order[k] : k \in 1..Len(order)} = DOMAIN seen
        /\ DOMAIN seen = {all[k].URL : k \in 1..Len(all)}
        /\ \A u \in DOMAIN seen : seen[u] = all[FirstWith(all, u)]
        /\ \A a, b \in 1..Len(order) :
               a < b => FirstWith(all, order[a]) < FirstWith(all, order[b])

\* two SOURCES chunks were handled; a source of the second has the URL of
\* a source of the first but another title, and the first one is kept
C25_Witness ==
    /\ entry = "main"
    /\ Len(Handled) = 2
    /\ Len(order) = 2
    /\ IsChunk(received[1].line, ChunkSources)
    /\ Len(received[1].line.sources.list) > 0
    /\ \E k \in 1..Len(received[2].line.sources.list) :
           LET s == received[2].line.sources.list[k] IN
           /\ s.URL \in DOMAIN seen
           /\ seen[s.URL] # s
           /\ seen[s.URL] = received[1].line.sources.list[1]

\* a step of the loop after a read: the loop is left after the read that
\* gave end of stream; after a read that gave another error the program
\* exits through ExitCouldNotAnswer; a blank line or a line that is not
\* JSON leaves the answer buffer and the sources as they are
ReadLoopStep ==
    /\ (pc = "frame" /\ rdErr = "EOF") => pc' # "read"
    /\ (pc = "frame" /\ rdErr = "other") =>
           /\ pc' = "exited"
           /\ exitCode' = 1
           /\ stdout'[Len(stdout')] = [by |-> "ExitCouldNotAnswer",
                                       s |-> CouldNotAnswer]
    /\ (pc = "process" /\ (rdLine.blank \/ ~rdLine.json)) =>
           UNCHANGED <<buf, seen, order>>

\* C30: the read loop ends: it stops after the read that returns end of
\* stream, a read that returns another error makes the program exit through
\* ExitCouldNotAnswer with status 1 instead of reading again, and blank or
\* invalid lines leave the answer buffer and the source list unchanged.
C30_ReadLoopEnds == [][ReadLoopStep]_vars



----------------------------------------------------------------------------
(* The repairs: what they leave alone. *)

\* a is a prefix of b
IsPrefix(a, b) == Len(a) <= Len(b) /\ SubSeq(b, 1, Len(a)) = a

\* s has a line that starts with optional white space and a pipe
HasPipeLine(s) == \E k \in 1..Len(Split(s)) : tableLineRe(Split(s)[k])

\* C26: each of fixCodeBlocks, fixInlineCode, fixLinks, fixImages and
\* fixEmphasis returns its argument followed by zero or more characters;
\* hence for a buffer without a line that starts with optional white space
\* and a pipe the buffer is a prefix of what fixIncompleteMarkdown returns.
C26_AppendOnly ==
    /\ (\/ JustRan("fixCodeBlocks", "fixInlineCode")
        \/ JustRan("fixInlineCode", "fixLinks")
        \/ JustRan("fixLinks", "fixImages")
        \/ JustRan("fixImages", "fixEmphasis")
        \/ JustRan("fixEmphasis", "fixTables"))
           => IsPrefix(prev, content)
    /\ (entry = "fixIncompleteMarkdown" /\ Returned /\ ~HasPipeLine(raw))
           => IsPrefix(raw, content)

\* fixEmphasis was called on its own with two markers open and appended
\* their closers
C26_Witness ==
    /\ entry = "fixEmphasis"
    /\ pc = "done"
    /\ Len(stack) = 2
    /\ Len(content) >= Len(raw) + 2
    /\ IsPrefix(raw, content)

\* every emphasis character of s lies behind an odd number of backticks,
\* the backticks and fences of s pair up, and s holds no bracket, no
\* parenthesis and no pipe
EmphasisOnlyInClosedCode(s) ==
    /\ ~Odd(Cardinality(Positions(s, BT)))
    /\ ~Odd(Count(s, Fence))
    /\ \A k \in 1..Len(s) :
           /\ s[k] \notin {"[", "]", "(", ")", "|"}
           /\ s[k] \in {"*", "_", "~"} =>
                  Odd(Cardinality({j \in Positions(s, BT) : j < k}))

\* C27: a complete buffer whose emphasis characters all lie inside closed
\* inline code or a closed fenced block is returned by fixIncompleteMarkdown
\* unchanged.
C27_EmphasisInCodeIgnored ==
    (entry = "fixIncompleteMarkdown" /\ Returned /\ EmphasisOnlyInClosedCode(raw))
        => content = raw

\* C28: inside fixIncompleteMarkdown fixImages never appends "]": with s the
\* argument of fixLinks, fixImages is given fixLinks(s) and returns it as it
\* is or followed by a single ")".
C28_ImagesAppendNoBracket ==
    (entry = "fixIncompleteMarkdown" /\ pc = "fixEmphasis") =>
        /\ prev = fixLinks(fixInlineCode(fixCodeBlocks(raw)))
        /\ content \in {prev, prev \o <<")">>}

\* in the pipeline fixLinks closed the "[" of an image and fixImages then
\* appended a ")"
C28_Witness ==
    /\ entry = "fixIncompleteMarkdown"
    /\ pc = "fixEmphasis"
    /\ ImagePositions(raw) # {}
    /\ prev = raw \o <<"]">>
    /\ content = prev \o <<")">>

\* C29: fixTables applied to its own result changes nothing; the result has
\* as many lines as the argument; and in the result every candidate line
\* that follows the header of a recognised table has at least the header's
\* pipe count.
C29_TablesIdempotent ==
    JustRan("fixTables", "done") =>
        /\ fixTables(content) = content
        /\ Len(LinesOut) = Len(LinesIn)
        /\ \A k \in 1..Len(LinesOut) :
               InTableRow(LinesOut, k) =>
                   Pipes(LinesOut[k]) >= Pipes(LinesOut[HeaderOf(LinesOut, k)])

\* fixTables was called on its own and padded two rows behind the
\* separator; applied again it leaves the result as it is
C29_Witness ==
    /\ entry = "fixTables"
    /\ pc = "done"
    /\ \E k \in 1..(Len(LinesIn) - 1) :
           /\ IsBodyRow(LinesIn, k)
           /\ LinesOut[k] # LinesIn[k]
           /\ LinesOut[k + 1] # LinesIn[k + 1]
    /\ fixTables(content) = content


====
